---- MODULE Spec2Model ----
(***************************************************************************)
(* AegisLab front end: the pipeline orchestrator (Home), the three stage   *)
(* animators (RiskAnalyzer, ScoreManager, ActionPlanner), the API client   *)
(* and its transformation functions, as one state machine.                  *)
(*                                                                         *)
(* JavaScript values are encoded as follows.                               *)
(*   null / undefined        <<>>          (None)                          *)
(*   a present value v       <<v>>         (Some(v)), read back with Val   *)
(*   a string that is cut, searched or measured: a tuple of characters     *)
(*   a number with decimals: an integer in the stated unit                 *)
(***************************************************************************)
EXTENDS Integers, Sequences, FiniteSets, Bags, TLC

None == <<>>

Some(v) == <<v>>

Val(o) == o[1]

Min(a, b) == IF a < b THEN a ELSE b

Max(a, b) == IF a > b THEN a ELSE b

Take(s, n) == SubSeq(s, 1, Min(n, Len(s)))

(***************************************************************************)
(* Bounds of the model.                                                    *)
(***************************************************************************)
\* Handler invocations that do not come from a rendered, enabled control
\* (specification SpecDirect only).
MaxDirect == 1

(***************************************************************************)
(* Workflow stages (home.js, WORKFLOW_STAGES).                             *)
(***************************************************************************)
STAGE_FORM == "form"

STAGE_RISK == "risk"

STAGE_SCORE == "score"

STAGE_ACTION == "action"

STAGE_SUMMARY == "summary"

WORKFLOW_STAGES == {STAGE_FORM, STAGE_RISK, STAGE_SCORE, STAGE_ACTION, STAGE_SUMMARY}

AgentStages == {STAGE_RISK, STAGE_SCORE, STAGE_ACTION}

(***************************************************************************)
(* Lookup in an object literal, as in mapping[key] || fallback.            *)
(***************************************************************************)
\* A property key that is undefined is looked up as the text "undefined".
Absent == "undefined"

\* Names an object literal answers to without defining them: the members it
\* inherits from Object.prototype.
ObjectPrototypeNames ==
    {"constructor", "toString", "valueOf", "hasOwnProperty", "__proto__"}

\* mapping[key] for such a name: a function or the prototype object, which is
\* truthy, so that `||` keeps it and the fallback is not taken.
InheritedMember == "[inherited member of Object.prototype]"

\* A member of such a function that it does not have: undefined, in a field
\* whose other values are texts.
UndefinedText == "[undefined]"

(***************************************************************************)
(* API client: transformation functions.                                   *)
(***************************************************************************)
commonSafetyTerms ==
    << <<"s", "c", "a", "f", "f", "o", "l", "d", "i", "n", "g">>, <<"f", "a", "l", "l">>, <<"f", "a", "l", "l", "i", "n", "g">>, <<"s", "l", "i", "p">>, <<"t", "r", "i", "p">>,
       <<"e", "l", "e", "c", "t", "r", "i", "c", "a", "l">>, <<"c", "h", "e", "m", "i", "c", "a", "l">>, <<"f", "i", "r", "e">>, <<"m", "a", "c", "h", "i", "n", "e", "r", "y">>,
       <<"e", "q", "u", "i", "p", "m", "e", "n", "t">>, <<"g", "u", "a", "r", "d">>, <<"b", "a", "r", "r", "i", "e", "r">>, <<"h", "a", "r", "n", "e", "s", "s">>, <<"p", "p", "e">>,
       <<"h", "a", "z", "a", "r", "d">>, <<"u", "n", "s", "a", "f", "e">>, <<"e", "x", "p", "o", "s", "e", "d">>, <<"u", "n", "p", "r", "o", "t", "e", "c", "t", "e", "d">>,
       <<"d", "a", "m", "a", "g", "e", "d">>, <<"b", "r", "o", "k", "e", "n">> >>

\* String.prototype.toLowerCase on one character, for the capitals that occur
\* in the texts of the model.
LowerChar(c) ==
    CASE c = "F" -> "f"
      [] c = "H" -> "h"
      [] c = "S" -> "s"
      [] c = "U" -> "u"
      [] c = "W" -> "w"
      [] OTHER -> c

toLowerCase(text) == [i \in 1..Len(text) |-> LowerChar(text[i])]

\* String.prototype.includes
includes(text, term) ==
    \E i \in 1..(Len(text) - Len(term) + 1) :
        SubSeq(text, i, i + Len(term) - 1) = term

\* api.js extractKeywords: the template literal joins the two descriptions
\* with one space.
extractKeywords(hazardDesc, observationDesc) ==
    LET text  == toLowerCase(hazardDesc \o <<" ">> \o observationDesc)
        found == SelectSeq(commonSafetyTerms, LAMBDA term : includes(text, term))
    IN  Take(found, Min(5, Max(3, Len(found))))

mapTaxonomyToCategory(taxonomyRef) ==
    CASE taxonomyRef = "HAZ-FALL-001" -> "Fall Protection / Scaffolding"
      [] taxonomyRef = "HAZ-FALL-002" -> "Slip, Trip & Fall"
      [] taxonomyRef = "HAZ-ELEC-001" -> "Electrical Safety"
      [] taxonomyRef = "HAZ-ELEC-002" -> "Arc Flash / Shock"
      [] taxonomyRef = "HAZ-CHEM-001" -> "Chemical Exposure"
      [] taxonomyRef = "HAZ-CHEM-002" -> "Toxic Substances"
      [] taxonomyRef = "HAZ-MECH-001" -> "Struck By / Caught In"
      [] taxonomyRef = "HAZ-MECH-002" -> "Machinery Safety"
      [] taxonomyRef = "HAZ-ERGO-001" -> "Ergonomic / Manual Handling"
      [] taxonomyRef = "HAZ-ERGO-002" -> "Repetitive Motion"
      [] taxonomyRef = "HAZ-FIRE-001" -> "Fire / Explosion"
      [] taxonomyRef = "HAZ-FIRE-002" -> "Hot Work"
      [] taxonomyRef = "HAZ-GEN-001" -> "General Safety"
      [] taxonomyRef = "HAZ-GEN-002" -> "Housekeeping"
      [] taxonomyRef \in ObjectPrototypeNames -> InheritedMember
      [] OTHER -> "General Safety"

\* Math.round(x * 100) for a confidence x given in thousandths.
RoundPercent(thousandths) == (thousandths + 5) \div 10

\* api.js transformHazardToRiskData; observation is the object itself.
transformHazardToRiskData(hazard, observation) ==
    [ hazard     |-> hazard.description,
      category   |-> mapTaxonomyToCategory(hazard.taxonomy_ref),
      keywords   |-> extractKeywords(hazard.description, observation.description),
      confidence |-> RoundPercent(hazard.confidence) ]

categoryMap(priority) ==
    CASE priority = "CRITICAL" -> [category |-> "Critical", color |-> "red"]
      [] priority = "HIGH"     -> [category |-> "High", color |-> "orange"]
      [] priority = "MEDIUM"   -> [category |-> "Medium", color |-> "yellow"]
      [] priority = "LOW"      -> [category |-> "Low", color |-> "green"]
      [] priority \in ObjectPrototypeNames
                               -> [category |-> UndefinedText, color |-> UndefinedText]
      [] OTHER                 -> [category |-> "Medium", color |-> "yellow"]

\* api.js transformScoredHazardToScoreData; rpn is None when the backend
\* sent no rpn field, and riskScore copies it.
transformScoredHazardToScoreData(scoredHazard) ==
    [ severity   |-> scoredHazard.severity,
      likelihood |-> scoredHazard.likelihood,
      riskScore  |-> scoredHazard.rpn,
      category   |-> categoryMap(scoredHazard.priority).category,
      color      |-> categoryMap(scoredHazard.priority).color ]

priorityMap(controlType) ==
    CASE controlType = "ELIMINATION"    -> "Immediate"
      [] controlType = "SUBSTITUTION"   -> "Immediate"
      [] controlType = "ENGINEERING"    -> "Before Next Shift"
      [] controlType = "ADMINISTRATIVE" -> "Daily"
      [] controlType = "PPE"            -> "Before Next Shift"
      [] controlType \in ObjectPrototypeNames -> InheritedMember
      [] OTHER                          -> "Daily"

\* api.js transformActionPlanToActions; ids are index + 1.
transformActionPlanToActions(actionPlan) ==
    [ index \in 1..Len(actionPlan.tasks) |->
        LET task == actionPlan.tasks[index] IN
        [ id               |-> <<index>>,
          title            |-> task.title,
          description      |-> task.description,
          oshaCode         |-> IF Len(actionPlan.standards_refs) > 0
                               THEN actionPlan.standards_refs[1]
                               ELSE "OSHA General Duty",
          priority         |-> priorityMap(task.control_type),
          controlType      |-> task.control_type,
          responsibleRole  |-> task.responsible_role,
          durationMinutes  |-> task.duration_minutes,
          materials        |-> task.material_requirements ] ]

(***************************************************************************)
(* RiskAnalyzer: the result it computes on every render.                   *)
(***************************************************************************)
\* RiskAnalyzer's own extractKeywords: absent descriptions count as empty.
RiskAnalyzer_extractKeywords(hazardDesc, observationDesc) ==
    LET text  == toLowerCase(hazardDesc \o <<" ">> \o observationDesc)
        found == SelectSeq(commonSafetyTerms, LAMBDA term : includes(text, term))
    IN  IF Len(found) > 0
        THEN Take(found, 5)
        ELSE << <<"s", "a", "f", "e", "t", "y">>, <<"h", "a", "z", "a", "r", "d">>, <<"r", "i", "s", "k">> >>

\* apiData is pipelineResult?.hazards?.[0] (None or Some(hazard)); observation
\* is None or Some(observation).
analysisResult(apiData, observation) ==
    IF apiData # None
    THEN LET h == Val(apiData) IN
         [ hazard     |-> IF h.description # <<>> THEN h.description
                          ELSE <<"H", "a", "z", "a", "r", "d", " ", "d", "e", "t", "e", "c", "t", "e", "d", " ", "f", "r", "o", "m", " ", "o", "b", "s", "e", "r", "v", "a", "t", "i", "o", "n">>,
           category   |-> mapTaxonomyToCategory(h.taxonomy_ref),
           keywords   |-> RiskAnalyzer_extractKeywords(
                              h.description,
                              IF observation # None
                              THEN Val(observation).description ELSE <<>>),
           confidence |-> RoundPercent(IF h.confidence # 0
                                       THEN h.confidence ELSE 850) ]
    ELSE [ hazard     |-> <<"S", "l", "i", "p", "p", "i", "n", "g", " ", "h", "a", "z", "a", "r", "d", " ", "d", "u", "e", " ", "t", "o", " ", "u", "n", "s", "t", "a", "b", "l", "e", " ", "s", "c", "a", "f", "f", "o", "l", "d", "i", "n", "g", " ", "b", "o", "a", "r", "d">>,
           category   |-> "Fall Protection / Scaffolding",
           keywords   |-> << <<"s", "c", "a", "f", "f", "o", "l", "d", "i", "n", "g">>, <<"s", "l", "i", "p", "p", "e", "d">>, <<"f", "a", "l", "l", "i", "n", "g">> >>,
           confidence |-> 94 ]

(***************************************************************************)
(* ScoreManager: the result it computes on every render.                   *)
(***************************************************************************)
mapPriorityToCategory(priority) ==
    CASE priority = "CRITICAL" -> [category |-> "Critical", color |-> "red"]
      [] priority = "HIGH"     -> [category |-> "High", color |-> "orange"]
      [] priority = "MEDIUM"   -> [category |-> "Medium", color |-> "yellow"]
      [] priority = "LOW"      -> [category |-> "Low", color |-> "green"]
      [] priority \in ObjectPrototypeNames
                               -> [category |-> UndefinedText, color |-> UndefinedText]
      [] OTHER                 -> [category |-> "Medium", color |-> "yellow"]

\* scoreResult with another fallback object.
scoreResult_otherFallback(apiData) ==
    IF apiData # None
    THEN LET s == Val(apiData) IN
         [ severity   |-> IF s.severity # 0 THEN s.severity ELSE 4,
           likelihood |-> IF s.likelihood # 0 THEN s.likelihood ELSE 3,
           riskScore  |-> IF s.rpn # None /\ Val(s.rpn) # 0
                          THEN s.rpn
                          ELSE Some(s.severity * s.likelihood),
           category   |-> mapPriorityToCategory(s.priority).category,
           color      |-> mapPriorityToCategory(s.priority).color ]
    ELSE [ severity   |-> 3,
           likelihood |-> 3,
           riskScore  |-> Some(9),
           category   |-> "Medium",
           color      |-> "yellow" ]

\* apiData is pipelineResult?.scored_hazards?.[0].
scoreResult(apiData) ==
    IF apiData # None
    THEN LET s == Val(apiData) IN
         [ severity   |-> IF s.severity # 0 THEN s.severity ELSE 4,
           likelihood |-> IF s.likelihood # 0 THEN s.likelihood ELSE 3,
           riskScore  |-> IF s.rpn # None /\ Val(s.rpn) # 0
                          THEN s.rpn
                          ELSE Some(s.severity * s.likelihood),
           category   |-> mapPriorityToCategory(s.priority).category,
           color      |-> mapPriorityToCategory(s.priority).color ]
    ELSE [ severity   |-> 4,
           likelihood |-> 3,
           riskScore  |-> Some(12),
           category   |-> "High",
           color      |-> "orange" ]

(***************************************************************************)
(* ActionPlanner: its plans and the tasks it passes on.                    *)
(***************************************************************************)
defaultActionItems ==
    << [ id |-> <<1>>,
         title |-> "Install guardrails on scaffolding platform",
         description |-> "Add standard guardrails to all open sides",
         oshaCode |-> "OSHA 1926.451(g)(1)",
         priority |-> "Immediate",
         icon |-> "Hammer",
         controlType |-> "ENGINEERING",
         responsibleRole |-> "safety_engineer",
         durationMinutes |-> 120,
         materials |-> <<"guardrails", "fixings">> ],
       [ id |-> <<2>>,
         title |-> "Perform daily stability check",
         description |-> "Implement pre-shift inspection protocol",
         oshaCode |-> "OSHA 1926.451(f)(3)",
         priority |-> "Daily",
         icon |-> "FileText",
         controlType |-> "ADMINISTRATIVE",
         responsibleRole |-> "supervisor",
         durationMinutes |-> 30,
         materials |-> <<"inspection_checklist">> ],
       [ id |-> <<3>>,
         title |-> "Provide anti-slip footgear to workers",
         description |-> "Issue slip-resistant footwear",
         oshaCode |-> "OSHA 1926.95(a)",
         priority |-> "Before Next Shift",
         icon |-> "Cog",
         controlType |-> "PPE",
         responsibleRole |-> "safety_officer",
         durationMinutes |-> 60,
         materials |-> <<"safety_boots">> ] >>

mapControlTypeToPriority(controlType) ==
    CASE controlType = "ELIMINATION"    -> "Immediate"
      [] controlType = "SUBSTITUTION"   -> "Immediate"
      [] controlType = "ENGINEERING"    -> "Before Next Shift"
      [] controlType = "ADMINISTRATIVE" -> "Daily"
      [] controlType = "PPE"            -> "Before Next Shift"
      [] controlType \in ObjectPrototypeNames -> InheritedMember
      [] OTHER                          -> "Daily"

getIconForControlType(controlType) ==
    CASE controlType = "ELIMINATION"    -> "Hammer"
      [] controlType = "SUBSTITUTION"   -> "Hammer"
      [] controlType = "ENGINEERING"    -> "Wrench"
      [] controlType = "ADMINISTRATIVE" -> "FileText"
      [] controlType = "PPE"            -> "Cog"
      [] controlType \in ObjectPrototypeNames -> InheritedMember
      [] OTHER                          -> "Cog"

\* apiData is pipelineResult?.action_plans (None or Some(list)); task ids are
\* the pair (plan index, task index), both from 0.
actionPlans(apiData) ==
    IF apiData # None /\ Len(Val(apiData)) > 0
    THEN [ planIdx \in 1..Len(Val(apiData)) |->
             LET plan == Val(apiData)[planIdx] IN
             [ id           |-> plan.plan_id,
               planNumber   |-> planIdx,
               standards    |-> plan.standards_refs,
               tasks        |->
                 [ taskIdx \in 1..Len(plan.tasks) |->
                     LET task == plan.tasks[taskIdx] IN
                     [ id              |-> <<planIdx - 1, taskIdx - 1>>,
                       title           |-> task.title,
                       description     |-> task.description,
                       oshaCode        |-> IF Len(plan.standards_refs) > 0
                                           THEN plan.standards_refs[1]
                                           ELSE "OSHA General Duty",
                       priority        |-> mapControlTypeToPriority(task.control_type),
                       icon            |-> getIconForControlType(task.control_type),
                       controlType     |-> task.control_type,
                       responsibleRole |-> task.responsible_role,
                       durationMinutes |-> task.duration_minutes,
                       materials       |-> task.material_requirements ] ] ] ]
    ELSE << [ id         |-> "default-plan",
              planNumber |-> 1,
              standards  |-> <<"OSHA 1926.451">>,
              tasks      |-> defaultActionItems ] >>

RECURSIVE flatMapTasks(_)
\* actionPlans.flatMap(p => p.tasks)
flatMapTasks(plans) ==
    IF plans = <<>> THEN <<>>
    ELSE Head(plans).tasks \o flatMapTasks(Tail(plans))

(***************************************************************************)
(* Inputs: what the form can hand over and what the backend can answer.    *)
(***************************************************************************)
FormInputs ==
    { [ site |-> "Building A - 3rd Floor", potential |-> "HAZARD",
        type |-> "UNSAFE_CONDITION", description |-> <<"s", "l", "i", "p">> ],
      [ site |-> "Building B - Rooftop", potential |-> "NEAR_MISS",
        type |-> "UNSAFE_ACT", description |-> <<"W", "e", "t", " ", "f", "l", "o", "o", "r">> ],
      [ site |-> "Building A - 3rd Floor", potential |-> "HAZARD",
        type |-> "UNSAFE_CONDITION", description |-> <<>> ] }

\* ObservationForm: isValid
isValid(formData) ==
    /\ formData.site # ""
    /\ formData.potential # ""
    /\ formData.type # ""
    /\ formData.description # <<>>

\* ObservationForm.handleSubmit builds the observation it passes to onSubmit;
\* the timestamp is one fixed instant.
BuildObservation(formData) ==
    [ site        |-> formData.site,
      potential   |-> formData.potential,
      type        |-> formData.type,
      description |-> formData.description,
      observedAt  |-> "2024-01-01T00:00:00.000Z" ]

Hazard1 ==
    [ description |-> <<"F", "a", "l", "l">>, taxonomy_ref |-> "HAZ-FALL-001", confidence |-> 920 ]

ScoredHazard1 ==
    [ severity |-> 2, likelihood |-> 1, rpn |-> None, priority |-> "CRITICAL" ]

PlanA ==
    [ plan_id |-> "plan-a",
      standards_refs |-> <<"OSHA 1926.451">>,
      tasks |-> << [ title |-> "Install guardrails", description |-> "Rails",
                     control_type |-> "ENGINEERING",
                     responsible_role |-> "safety_engineer",
                     duration_minutes |-> 120,
                     material_requirements |-> <<"guardrails">> ] >> ]

PlanB ==
    [ plan_id |-> "plan-b",
      standards_refs |-> <<>>,
      tasks |-> << [ title |-> "Brief the crew", description |-> "Toolbox talk",
                     control_type |-> "ADMINISTRATIVE",
                     responsible_role |-> "supervisor",
                     duration_minutes |-> 30,
                     material_requirements |-> <<>> ] >> ]

\* Bodies of a 2xx answer: every list filled, every list empty, every field
\* left out.
Payloads ==
    { [ hazards |-> Some(<<Hazard1>>), scored_hazards |-> Some(<<ScoredHazard1>>),
        action_plans |-> Some(<<PlanA, PlanB>>) ],
      [ hazards |-> Some(<<>>), scored_hazards |-> Some(<<>>),
        action_plans |-> Some(<<>>) ],
      [ hazards |-> None, scored_hazards |-> None, action_plans |-> None ] }

\* What fetch can settle with.  kind "network": fetch itself rejects with
\* message.  kind "http": a response with a status; json says whether its body
\* parses as JSON; detail is the body's detail field (a text, or a list as a
\* validation failure sends it); result is the body of a 2xx answer.
NetworkFailure(message) ==
    [ kind |-> "network", status |-> 0, json |-> FALSE, detail |-> None,
      result |-> None, message |-> message ]

HttpFailure(status, json, detail) ==
    [ kind |-> "http", status |-> status, json |-> json, detail |-> detail,
      result |-> None, message |-> <<>> ]

HttpSuccess(json, result) ==
    [ kind |-> "http", status |-> 200, json |-> json, detail |-> None,
      result |-> result, message |-> <<>> ]

DetailText(text) == Some([isText |-> TRUE, text |-> text])

DetailList == Some([isText |-> FALSE, text |-> ""])

FailureResponses ==
    { NetworkFailure(<<"Failed to fetch">>),
      HttpFailure(500, FALSE, None),
      HttpFailure(500, TRUE, None),
      HttpFailure(404, TRUE, None),
      HttpFailure(400, TRUE, DetailText("Observation rejected")),
      HttpFailure(500, TRUE, DetailText("")),
      HttpFailure(422, TRUE, DetailList),
      HttpSuccess(FALSE, None) }

SuccessResponses == { HttpSuccess(TRUE, Some(p)) : p \in Payloads }

Responses == FailureResponses \cup SuccessResponses

\* response.ok
ResponseOk(response) == response.status >= 200 /\ response.status <= 299

\* Number to string inside a template literal.
StatusText(status) ==
    CASE status = 400 -> "400"
      [] status = 404 -> "404"
      [] status = 422 -> "422"
      [] status = 500 -> "500"
      [] OTHER -> "0"

\* api.js analyzeObservation, from the settled fetch on: what the awaited call
\* returns or throws.  The message of a thrown error is a tuple of its parts.
analyzeObservation(response) ==
    IF response.kind = "network"
    THEN [ threw |-> TRUE, message |-> response.message, result |-> None ]
    ELSE IF ~ResponseOk(response)
    THEN LET error  == IF response.json THEN response.detail
                       ELSE DetailText("Unknown error")
             truthy == error # None /\ (Val(error).isText => Val(error).text # "")
         IN  [ threw   |-> TRUE,
               message |-> IF truthy
                           THEN IF Val(error).isText THEN <<Val(error).text>>
                                ELSE <<"[object Object]">>
                           ELSE <<"API request failed with status ",
                                  StatusText(response.status)>>,
               result  |-> None ]
    ELSE IF ~response.json
    THEN [ threw |-> TRUE, message |-> <<"Unexpected token < in JSON at position 0">>,
           result |-> None ]
    ELSE [ threw |-> FALSE, message |-> <<>>, result |-> response.result ]

(***************************************************************************)
(* Home: its state and its handlers, as functions of the state record.     *)
(***************************************************************************)
HomeInit ==
    [ stage              |-> STAGE_FORM,
      observation        |-> None,
      riskData           |-> None,
      scoreData          |-> None,
      actions            |-> None,
      completedSteps     |-> <<>>,
      isSubmitting       |-> FALSE,
      error              |-> None,
      pipelineResult     |-> None,
      riskReady          |-> FALSE,
      scoreReady         |-> FALSE,
      actionReady        |-> FALSE,
      viewingFromSummary |-> FALSE ]

\* handleObservationSubmit up to the await, without setError(null).
handleObservationSubmit_begin_keepsError(h, data) ==
    [ h EXCEPT !.observation = Some(data), !.isSubmitting = TRUE ]

\* handleObservationSubmit up to the await.
handleObservationSubmit_begin(h, data) ==
    [ h EXCEPT !.observation = Some(data), !.isSubmitting = TRUE, !.error = None ]

\* handleObservationSubmit with the finally block left out.
handleObservationSubmit_resolved_noFinally(h, result) ==
    [ h EXCEPT !.pipelineResult = result, !.stage = STAGE_RISK ]

\* handleObservationSubmit after the await, when analyzeObservation returned.
handleObservationSubmit_resolved(h, result) ==
    [ h EXCEPT !.pipelineResult = result, !.stage = STAGE_RISK,
               !.isSubmitting = FALSE ]

\* handleObservationSubmit showing one fixed text whatever was thrown.
handleObservationSubmit_rejected_oneMessage(h, message) ==
    [ h EXCEPT !.error = Some(<<"Unknown error">>), !.isSubmitting = FALSE ]

\* The catch block going on to RISK all the same.
handleObservationSubmit_rejected_advances(h, message) ==
    [ h EXCEPT !.error = Some(message), !.isSubmitting = FALSE, !.stage = STAGE_RISK ]

\* The catch block without the finally block after it.
handleObservationSubmit_rejected_noFinally(h, message) ==
    [ h EXCEPT !.error = Some(message) ]

\* handleObservationSubmit after the await, when analyzeObservation threw.
handleObservationSubmit_rejected(h, message) ==
    [ h EXCEPT !.error = Some(message), !.isSubmitting = FALSE ]

\* A handle*Complete callback is a closure over the pipelineResult (pr) and, for
\* Risk, the observation (obs) of the render that created it.  Throws says
\* whether the call ends in a TypeError before any state is set.
handleRiskComplete_throws(pr, obs) ==
    /\ pr # None
    /\ \/ Val(pr).hazards = None
       \/ /\ Len(Val(Val(pr).hazards)) > 0
          /\ obs = None

\* handleRiskComplete that also moves on to SCORE.
handleRiskComplete_autoAdvance(h, pr, obs, data) ==
    IF handleRiskComplete_throws(pr, obs) THEN h
    ELSE [ h EXCEPT !.riskData = Some(data), !.riskReady = TRUE,
                    !.completedSteps = Append(@, "risk"), !.stage = STAGE_SCORE ]

handleRiskComplete(h, pr, obs, data) ==
    IF handleRiskComplete_throws(pr, obs) THEN h
    ELSE IF pr # None /\ Len(Val(Val(pr).hazards)) > 0
    THEN [ h EXCEPT !.riskData = Some(transformHazardToRiskData(
                                          Val(Val(pr).hazards)[1], Val(obs))),
                    !.riskReady = TRUE ]
    ELSE [ h EXCEPT !.riskData = Some(data), !.riskReady = TRUE ]

\* handleContinueToScore jumping past SCORE.
handleContinueToScore_toAction(h) ==
    [ h EXCEPT !.completedSteps = Append(@, "risk"), !.stage = STAGE_ACTION,
               !.riskReady = FALSE ]

handleContinueToScore(h) ==
    [ h EXCEPT !.completedSteps = Append(@, "risk"), !.stage = STAGE_SCORE,
               !.riskReady = FALSE ]

handleScoreComplete_throws(pr) ==
    pr # None /\ Val(pr).scored_hazards = None

\* handleScoreComplete recording what the animator passed, whatever the
\* response holds.
handleScoreComplete_animatorValue(h, pr, data) ==
    IF handleScoreComplete_throws(pr) THEN h
    ELSE [ h EXCEPT !.scoreData = Some(data), !.scoreReady = TRUE ]

handleScoreComplete(h, pr, data) ==
    IF handleScoreComplete_throws(pr) THEN h
    ELSE IF pr # None /\ Len(Val(Val(pr).scored_hazards)) > 0
    THEN [ h EXCEPT !.scoreData = Some(transformScoredHazardToScoreData(
                                           Val(Val(pr).scored_hazards)[1])),
                    !.scoreReady = TRUE ]
    ELSE [ h EXCEPT !.scoreData = Some(data), !.scoreReady = TRUE ]

\* handleContinueToAction recording nothing in the history.
handleContinueToAction_noHistory(h) ==
    [ h EXCEPT !.stage = STAGE_ACTION, !.scoreReady = FALSE ]

handleContinueToAction(h) ==
    [ h EXCEPT !.completedSteps = Append(@, "score"), !.stage = STAGE_ACTION,
               !.scoreReady = FALSE ]

handleActionComplete_throws(pr) ==
    pr # None /\ Val(pr).action_plans = None

\* handleActionComplete setting the ready flag and recording nothing.
handleActionComplete_flagOnly(h, pr, data) ==
    IF handleActionComplete_throws(pr) THEN h
    ELSE [ h EXCEPT !.actionReady = TRUE ]

handleActionComplete(h, pr, data) ==
    IF handleActionComplete_throws(pr) THEN h
    ELSE IF pr # None /\ Len(Val(Val(pr).action_plans)) > 0
    THEN [ h EXCEPT !.actions = Some(transformActionPlanToActions(
                                         Val(Val(pr).action_plans)[1])),
                    !.actionReady = TRUE ]
    ELSE [ h EXCEPT !.actions = Some(data), !.actionReady = TRUE ]

\* handleContinueToSummary without setActionReady(false).
handleContinueToSummary_keepsReady(h) ==
    [ h EXCEPT !.completedSteps = Append(@, "action"), !.stage = STAGE_SUMMARY ]

handleContinueToSummary(h) ==
    [ h EXCEPT !.completedSteps = Append(@, "action"), !.stage = STAGE_SUMMARY,
               !.actionReady = FALSE ]

\* handleReset leaving the three results as they are.
handleReset_keepsResults(h) ==
    [ h EXCEPT !.stage = STAGE_FORM, !.observation = None, !.completedSteps = <<>>,
               !.pipelineResult = None, !.error = None, !.riskReady = FALSE,
               !.scoreReady = FALSE, !.actionReady = FALSE,
               !.viewingFromSummary = FALSE ]

\* handleReset leaving the completed-stage history as it is.
handleReset_keepsHistory(h) ==
    [ h EXCEPT !.stage = STAGE_FORM, !.observation = None, !.riskData = None,
               !.scoreData = None, !.actions = None,
               !.pipelineResult = None, !.error = None, !.riskReady = FALSE,
               !.scoreReady = FALSE, !.actionReady = FALSE,
               !.viewingFromSummary = FALSE ]

handleReset(h) ==
    [ h EXCEPT !.stage = STAGE_FORM, !.observation = None, !.riskData = None,
               !.scoreData = None, !.actions = None, !.completedSteps = <<>>,
               !.pipelineResult = None, !.error = None, !.riskReady = FALSE,
               !.scoreReady = FALSE, !.actionReady = FALSE,
               !.viewingFromSummary = FALSE ]

\* handleViewAgent that turns review mode on and stays where it is.
handleViewAgent_staysInSummary(h, agentType) ==
    [ h EXCEPT !.viewingFromSummary = TRUE ]

handleViewAgent(h, agentType) ==
    LET v == [ h EXCEPT !.viewingFromSummary = TRUE ] IN
    CASE agentType = "risk"   -> [ v EXCEPT !.stage = STAGE_RISK, !.riskReady = TRUE ]
      [] agentType = "score"  -> [ v EXCEPT !.stage = STAGE_SCORE, !.scoreReady = TRUE ]
      [] agentType = "action" -> [ v EXCEPT !.stage = STAGE_ACTION, !.actionReady = TRUE ]
      [] OTHER                -> v

\* handleBackToSummary that also empties the completed-stage history.
handleBackToSummary_dropsHistory(h) ==
    [ h EXCEPT !.viewingFromSummary = FALSE, !.stage = STAGE_SUMMARY,
               !.completedSteps = <<>> ]

handleBackToSummary(h) ==
    [ h EXCEPT !.viewingFromSummary = FALSE, !.stage = STAGE_SUMMARY ]

(***************************************************************************)
(* State.                                                                  *)
(*   home       Home's useState cells                                      *)
(*   calls      analyzeObservation calls awaiting the backend (a bag)      *)
(*   anim       the mounted stage animator's useState cells and ref        *)
(*   timers     pending setInterval / setTimeout callbacks (a bag)         *)
(*   crashed    a render threw and React unmounted the tree                *)
(*   directCalls  handler calls made so far without a rendered control     *)
(*   lastOp, activation, snapshot, reviewed, delivered: history of the     *)
(*              run, read by the properties only; delivered holds the      *)
(*              stages whose stageResultReady reached Home since the last  *)
(*              reset                                                      *)
(*   probe      one call of a function of the transformation layer made    *)
(*              by itself: its input and what it returned (specification   *)
(*              SpecTransform only)                                        *)
(***************************************************************************)
VARIABLES home, calls, anim, timers, crashed, directCalls, lastOp, activation, snapshot,
          reviewed, delivered, probe

vars == <<home, calls, anim, timers, crashed, directCalls, lastOp, activation, snapshot,
          reviewed, delivered, probe>>

\* scanningPhrases.length, evaluationSteps.length, planningSteps.length
scanningPhrasesLength == 5

evaluationStepsLength == 5

planningStepsLength == 5

StepsLength(s) ==
    CASE s = STAGE_RISK  -> scanningPhrasesLength
      [] s = STAGE_SCORE -> evaluationStepsLength
      [] OTHER           -> planningStepsLength

\* useState initial values of an animator.
FirstPhase(s) ==
    CASE s = STAGE_RISK  -> "scanning"
      [] s = STAGE_SCORE -> "evaluating"
      [] OTHER           -> "planning"

\* The phase the 500 ms timeout after the last narration step sets.
SecondPhase(s) ==
    CASE s = STAGE_RISK  -> "analyzing"
      [] s = STAGE_SCORE -> "scoring"
      [] OTHER           -> "generating"

NoAnim ==
    [ mounted |-> "none", phase |-> "none", stepIndex |-> 0, result |-> None,
      visiblePlans |-> <<>>, generatingStarted |-> FALSE ]

AnimInit(s, skipAnimation) ==
    [ mounted |-> s,
      phase |-> IF skipAnimation THEN "complete" ELSE FirstPhase(s),
      stepIndex |-> 0,
      result |-> None,
      visiblePlans |-> <<>>,
      generatingStarted |-> (s = STAGE_ACTION /\ skipAnimation) ]

\* The apiData prop Home passes to each animator.
apiDataRisk(pr) ==
    IF pr # None /\ Val(pr).hazards # None /\ Len(Val(Val(pr).hazards)) > 0
    THEN Some(Val(Val(pr).hazards)[1]) ELSE None

apiDataScore(pr) ==
    IF pr # None /\ Val(pr).scored_hazards # None
       /\ Len(Val(Val(pr).scored_hazards)) > 0
    THEN Some(Val(Val(pr).scored_hazards)[1]) ELSE None

apiDataAction(pr) == IF pr # None THEN Val(pr).action_plans ELSE None

\* The value an animator computes for setResult and onComplete, from the props
\* of the render whose closure runs.
AnimatorResult(s, pr, obs) ==
    CASE s = STAGE_RISK  -> analysisResult(apiDataRisk(pr), obs)
      [] s = STAGE_SCORE -> scoreResult(apiDataScore(pr))
      [] OTHER           -> flatMapTasks(actionPlans(apiDataAction(pr)))

\* RiskAnalyzer's render reads observation.description and, in phase complete,
\* result.hazard: either throws on null.
RenderThrows(a, h) ==
    /\ a.mounted = STAGE_RISK
    /\ \/ h.observation = None
       \/ a.phase = "complete" /\ a.result = None

(***************************************************************************)
(* Timers.  A timer is [owner, kind, live, n, pr, obs]: the animator that   *)
(* set it, which callback it is, whether that animator is still mounted,    *)
(* the callback's local counter, and the pipelineResult and observation of  *)
(* the render whose closure it is.                                          *)
(***************************************************************************)
Timer(owner, kind, live, n, pr, obs) ==
    [ owner |-> owner, kind |-> kind, live |-> live, n |-> n, pr |-> pr, obs |-> obs ]

AddTimer(ts, t) == ts (+) SetToBag({t})

RemoveTimer(ts, t) == ts (-) SetToBag({t})

\* clearInterval / clearTimeout of every live timer of the given kinds.
ClearTimers(ts, kinds) ==
    [ t \in { x \in DOMAIN ts : ~(x.live /\ x.kind \in kinds) } |-> ts[t] ]

\* Ticks of likVal += 0.1 until likVal >= likelihood, in double arithmetic.
LikTicks(likelihood) ==
    CASE likelihood = 1 -> 11
      [] likelihood = 2 -> 20
      [] likelihood = 3 -> 30
      [] likelihood = 4 -> 40
      [] likelihood = 5 -> 51
      [] OTHER -> likelihood * 10

\* ScoreManager's likInterval stops at the tick that reaches the likelihood.
LikTarget(t) == LikTicks(scoreResult(apiDataScore(t.pr)).likelihood)

\* A timer whose animator is unmounted.  The ticks of an orphaned likInterval
\* before its last one set no state that anything reads (the meter's setState
\* goes to an unmounted component), so an orphaned likInterval is kept at its
\* last tick.
Orphan(t) ==
    IF t.kind = "lik"
    THEN [t EXCEPT !.live = FALSE, !.n = LikTarget(t) - 1]
    ELSE [t EXCEPT !.live = FALSE]

\* The timers an unmount leaves behind keep running without their component.
Orphaned(ts) ==
    LET image(u) == { t \in DOMAIN ts : Orphan(t) = u } IN
    [ u \in { Orphan(t) : t \in DOMAIN ts } |->
        LET RECURSIVE sum(_)
            sum(S) == IF S = {} THEN 0
                      ELSE LET x == CHOOSE x \in S : TRUE
                           IN  ts[x] + sum(S \ {x})
        IN  sum(image(u)) ]

\* What the effect cleanups cancel when an animator unmounts: the narration
\* interval (every animator), the typing interval (RiskAnalyzer), the reveal
\* timeouts (ActionPlanner).  ScoreManager's scoring effect returns an empty
\* cleanup, and no animator cancels its nested timeouts.
CleanupKinds == {"interval", "type", "reveal"}

Unmount(ts) == Orphaned(ClearTimers(ts, CleanupKinds))

\* The effect on [phase, onComplete, ...] when its dependencies changed.
PhaseEffect(a, ts, h) ==
    LET s     == a.mounted
        skip  == h.viewingFromSummary
        plans == actionPlans(apiDataAction(h.pipelineResult))
    IN
    CASE s = STAGE_RISK ->
           LET cleared == ClearTimers(ts, {"type"}) IN
           [ anim   |-> a,
             timers |-> IF a.phase = "analyzing" /\ ~skip
                        THEN AddTimer(cleared, Timer(s, "type", TRUE, 0,
                                               h.pipelineResult, h.observation))
                        ELSE cleared ]
      [] s = STAGE_SCORE ->
           [ anim   |-> a,
             timers |-> IF a.phase = "scoring" /\ ~skip
                        THEN AddTimer(ts, Timer(s, "likStart", TRUE, 0,
                                          h.pipelineResult, None))
                        ELSE ts ]
      [] OTHER ->
           LET cleared == ClearTimers(ts, {"reveal"}) IN
           IF a.phase = "generating" /\ ~a.generatingStarted
           THEN [ anim   |-> [a EXCEPT !.generatingStarted = TRUE],
                  timers |-> cleared (+)
                             SetToBag({ Timer(s, "reveal", TRUE, i,
                                              h.pipelineResult, None)
                                        : i \in 0..(Len(plans) - 1) }) ]
           ELSE [ anim |-> a, timers |-> cleared ]

\* The effect on [skipAnimation] (RiskAnalyzer, ScoreManager) or on
\* [skipAnimation, actionPlans] (ActionPlanner).
SkipEffect(a, h) ==
    IF ~h.viewingFromSummary THEN a
    ELSE IF a.mounted = STAGE_ACTION
    THEN [a EXCEPT !.visiblePlans = actionPlans(apiDataAction(h.pipelineResult))]
    ELSE [a EXCEPT !.result =
              Some(AnimatorResult(a.mounted, h.pipelineResult, h.observation))]

\* The effect on [isActive, skipAnimation]: the narration interval.
IntervalEffect(a, ts, h) ==
    LET cleared == ClearTimers(ts, {"interval"}) IN
    IF h.viewingFromSummary THEN cleared
    ELSE AddTimer(cleared, Timer(a.mounted, "interval", TRUE, 0, None, None))

Crash == [ anim |-> NoAnim, timers |-> EmptyBag, crashed |-> TRUE ]

\* React's commit after Home's state went from h to h2: which animator is
\* mounted, which effects run.  freshObs / freshPr: the handler stored a new
\* observation / pipelineResult object (a new identity even when equal).
\* AnimatePresence keeps a leaving animator for the length of its exit
\* transition; here it is unmounted at once.
Reconcile(h, h2, a, ts, freshObs, freshPr) ==
    IF h2.stage \notin AgentStages
    THEN [ anim |-> NoAnim, timers |-> Unmount(ts), crashed |-> FALSE ]
    ELSE IF a.mounted # h2.stage
    THEN LET a0 == AnimInit(h2.stage, h2.viewingFromSummary) IN
         IF RenderThrows(a0, h2) THEN Crash
         ELSE [ anim    |-> SkipEffect(a0, h2),
                timers  |-> IntervalEffect(a0, Unmount(ts), h2),
                crashed |-> FALSE ]
    ELSE LET skipChanged  == h.viewingFromSummary # h2.viewingFromSummary
             prChanged    == freshPr \/ h.pipelineResult # h2.pipelineResult
             obsChanged   == freshObs \/ h.observation # h2.observation
             \* the useCallback dependencies of handle*Complete
             ocChanged    == prChanged \/ (a.mounted = STAGE_RISK /\ obsChanged)
             \* ActionPlanner's useMemo on [apiData]
             plansChanged == /\ a.mounted = STAGE_ACTION
                             /\ prChanged
                             /\ \/ apiDataAction(h.pipelineResult) # None
                                \/ apiDataAction(h2.pipelineResult) # None
             a1 == IF skipChanged \/ plansChanged THEN SkipEffect(a, h2) ELSE a
             t1 == IF skipChanged THEN IntervalEffect(a, ts, h2) ELSE ts
             e3 == IF ocChanged \/ (skipChanged /\ a.mounted # STAGE_ACTION)
                      \/ plansChanged
                   THEN PhaseEffect(a1, t1, h2)
                   ELSE [ anim |-> a1, timers |-> t1 ]
         IN  IF RenderThrows(a, h2) THEN Crash
             ELSE [ anim |-> e3.anim, timers |-> e3.timers, crashed |-> FALSE ]

(***************************************************************************)
(* History of the run.                                                     *)
(***************************************************************************)
Op(name, arg, direct) ==
    [ op |-> name, arg |-> arg, direct |-> direct, live |-> TRUE, again |-> FALSE ]

NoActivation == [ stage |-> "none", mode |-> "none", signals |-> 0 ]

\* The results and the history a review visit must leave alone.
Recorded(h) ==
    [ completedSteps |-> h.completedSteps, riskData |-> h.riskData,
      scoreData |-> h.scoreData, actions |-> h.actions ]

NoProbe == [ kind |-> "none", input |-> <<>>, applied |-> FALSE, output |-> <<>> ]

Init ==
    /\ home = HomeInit
    /\ calls = EmptyBag
    /\ anim = NoAnim
    /\ timers = EmptyBag
    /\ crashed = FALSE
    /\ directCalls = 0
    /\ lastOp = Op("init", "", FALSE)
    /\ activation = NoActivation
    /\ snapshot = None
    /\ reviewed = FALSE
    /\ delivered = {}
    /\ probe = NoProbe

\* One handler run to its end: Home's state becomes h2, React commits, the
\* pending calls become cs.
Commit(h2, cs, freshObs, freshPr, op, snap) ==
    LET r == Reconcile(home, h2, anim, timers, freshObs, freshPr) IN
    /\ home' = h2
    /\ anim' = r.anim
    /\ timers' = r.timers
    /\ crashed' = r.crashed
    /\ calls' = IF r.crashed THEN EmptyBag ELSE cs
    /\ lastOp' = op
    /\ snapshot' = snap
    /\ reviewed' = (reviewed \/ op.op = "returnToSummary")
    /\ delivered' = IF op.op = "reset" THEN {} ELSE delivered
    /\ UNCHANGED probe
    /\ directCalls' = IF op.direct THEN directCalls + 1 ELSE directCalls
    /\ activation' =
         IF r.anim.mounted = "none" THEN NoActivation
         ELSE IF anim.mounted # r.anim.mounted
         THEN [ stage |-> r.anim.mounted,
                mode |-> IF h2.viewingFromSummary THEN "immediate" ELSE "scripted",
                signals |-> 0 ]
         ELSE activation

(***************************************************************************)
(* What Home renders: which control is on screen and enabled.              *)
(***************************************************************************)
\* ObservationForm's submit button: disabled={!isValid || isSubmitting}
Rendered_Submit(formData) ==
    /\ home.stage = STAGE_FORM
    /\ ~home.isSubmitting
    /\ isValid(formData)

Rendered_ContinueToScore ==
    home.stage = STAGE_RISK /\ home.riskReady /\ ~home.viewingFromSummary

Rendered_ContinueToAction ==
    home.stage = STAGE_SCORE /\ home.scoreReady /\ ~home.viewingFromSummary

\* The Continue button of ACTION shown in review mode as well.
Rendered_ContinueToSummary_inReview ==
    home.stage = STAGE_ACTION /\ home.actionReady

Rendered_ContinueToSummary ==
    home.stage = STAGE_ACTION /\ home.actionReady /\ ~home.viewingFromSummary

Rendered_BackToSummary ==
    /\ home.viewingFromSummary
    /\ \/ home.stage = STAGE_RISK /\ home.riskReady
       \/ home.stage = STAGE_SCORE /\ home.scoreReady
       \/ home.stage = STAGE_ACTION /\ home.actionReady

\* SummaryCard: the reset button and the three agent buttons.
Rendered_Summary == home.stage = STAGE_SUMMARY

AgentTypes == {"risk", "score", "action"}

(***************************************************************************)
(* The handlers as steps.  direct says the call did not come from a        *)
(* rendered control.                                                       *)
(***************************************************************************)
\* The history keeps the error that was on screen when submit was called.
DoSubmit(formData, direct) ==
    LET data == BuildObservation(formData) IN
    Commit(handleObservationSubmit_begin(home, data),
           calls (+) SetToBag({[data |-> data]}),
           TRUE, FALSE, Op("submit", home.error, direct), None)

\* The backend answers one pending call.
Settle(call, response) ==
    LET out == analyzeObservation(response) IN
    /\ ~crashed
    /\ BagIn(call, calls)
    /\ IF out.threw
       THEN Commit(handleObservationSubmit_rejected(home, out.message),
                   calls (-) SetToBag({call}),
                   FALSE, FALSE, Op("rejected", response, FALSE), snapshot)
       ELSE Commit(handleObservationSubmit_resolved(home, out.result),
                   calls (-) SetToBag({call}),
                   FALSE, TRUE, Op("resolved", response, FALSE), snapshot)

DoContinueToScore(direct) ==
    Commit(handleContinueToScore(home), calls, FALSE, FALSE,
           Op("continueToNext", "risk", direct), None)

DoContinueToAction(direct) ==
    Commit(handleContinueToAction(home), calls, FALSE, FALSE,
           Op("continueToNext", "score", direct), None)

DoContinueToSummary(direct) ==
    Commit(handleContinueToSummary(home), calls, FALSE, FALSE,
           Op("continueToNext", "action", direct), None)

DoReset(direct) ==
    Commit(handleReset(home), calls, FALSE, FALSE, Op("reset", "", direct), None)

DoViewAgent(agentType, direct) ==
    Commit(handleViewAgent(home, agentType), calls, FALSE, FALSE,
           Op("viewStage", agentType, direct), Some(Recorded(home)))

DoBackToSummary(direct) ==
    Commit(handleBackToSummary(home), calls, FALSE, FALSE,
           Op("returnToSummary", home.stage, direct), snapshot)

\* The user acts on what is on screen.
Submit ==
    \E formData \in FormInputs :
        ~crashed /\ Rendered_Submit(formData) /\ DoSubmit(formData, FALSE)

BackendSettles ==
    \E call \in DOMAIN calls, response \in Responses : Settle(call, response)

ContinueToScore == ~crashed /\ Rendered_ContinueToScore /\ DoContinueToScore(FALSE)

ContinueToAction == ~crashed /\ Rendered_ContinueToAction /\ DoContinueToAction(FALSE)

ContinueToSummary == ~crashed /\ Rendered_ContinueToSummary /\ DoContinueToSummary(FALSE)

BackToSummary == ~crashed /\ Rendered_BackToSummary /\ DoBackToSummary(FALSE)

Reset == ~crashed /\ Rendered_Summary /\ DoReset(FALSE)

ViewAgent ==
    \E agentType \in AgentTypes :
        ~crashed /\ Rendered_Summary /\ DoViewAgent(agentType, FALSE)

(***************************************************************************)
(* Timer callbacks.                                                        *)
(***************************************************************************)
\* A callback ran: the animator's cells become a2, the pending timers ts2.
TimerStep(a2, ts2, kind) ==
    /\ anim' = a2
    /\ timers' = ts2
    /\ lastOp' = Op("timer", kind, FALSE)
    /\ UNCHANGED <<home, calls, crashed, directCalls, activation, snapshot, reviewed,
                   delivered, probe>>

\* scanInterval / evalInterval / planInterval: the updater passed to
\* setScanIndex (setEvalIndex, setPlanIndex).
FireInterval ==
    \E t \in DOMAIN timers :
        /\ t.kind = "interval"
        /\ IF anim.stepIndex >= StepsLength(t.owner) - 1
           THEN TimerStep(anim,
                          AddTimer(RemoveTimer(timers, t),
                                   Timer(t.owner, "toPhase2", TRUE, 0, None, None)),
                          "interval")
           ELSE TimerStep([anim EXCEPT !.stepIndex = @ + 1], timers, "interval")

\* The 500 ms timeout going straight to 'complete'.
FireToPhase2_toComplete ==
    \E t \in DOMAIN timers :
        /\ t.kind = "toPhase2"
        /\ TimerStep(IF t.live THEN [anim EXCEPT !.phase = "complete"] ELSE anim,
                     RemoveTimer(timers, t), "toPhase2")

\* setTimeout(() => setPhase('analyzing' | 'scoring' | 'generating'), 500); a
\* setState of an unmounted component does nothing.
FireToPhase2 ==
    \E t \in DOMAIN timers :
        /\ t.kind = "toPhase2"
        /\ LET ts1 == RemoveTimer(timers, t) IN
           IF t.live /\ anim.phase # SecondPhase(t.owner)
           THEN LET e == PhaseEffect([anim EXCEPT !.phase = SecondPhase(t.owner)],
                                     ts1, home)
                IN  TimerStep(e.anim, e.timers, "toPhase2")
           ELSE TimerStep(anim, ts1, "toPhase2")

\* RiskAnalyzer's typeInterval: index counts in the closure; after the tick
\* that passes the text's length the interval stops and the 500 ms timeout is
\* set.
FireType ==
    \E t \in DOMAIN timers :
        /\ t.kind = "type"
        /\ LET fullText == AnimatorResult(STAGE_RISK, t.pr, t.obs).hazard
               ts1      == RemoveTimer(timers, t)
           IN  IF t.n + 1 > Len(fullText)
               THEN TimerStep(anim,
                              AddTimer(ts1, Timer(t.owner, "toComplete", t.live, 0,
                                                  t.pr, t.obs)),
                              "type")
               ELSE TimerStep(anim, AddTimer(ts1, [t EXCEPT !.n = @ + 1]), "type")

\* ScoreManager: the 800 ms timeout that starts likInterval.  (sevInterval
\* writes only the severity meter and is left out.)
FireLikStart ==
    \E t \in DOMAIN timers :
        /\ t.kind = "likStart"
        /\ LET lik == Timer(t.owner, "lik", t.live, 0, t.pr, None) IN
           TimerStep(anim,
                     AddTimer(RemoveTimer(timers, t),
                              IF t.live THEN lik ELSE Orphan(lik)),
                     "likStart")

FireLik ==
    \E t \in DOMAIN timers :
        /\ t.kind = "lik"
        /\ LET target == LikTarget(t)
               ts1    == RemoveTimer(timers, t)
           IN  IF t.n + 1 >= target
               THEN TimerStep(anim,
                              AddTimer(ts1, Timer(t.owner, "toComplete", t.live, 0,
                                                  t.pr, None)),
                              "lik")
               ELSE TimerStep(anim, AddTimer(ts1, [t EXCEPT !.n = @ + 1]), "lik")

\* The reveal timeouts without setVisiblePlans.
FireReveal_noAppend ==
    \E t \in DOMAIN timers :
        /\ t.kind = "reveal"
        /\ \A u \in DOMAIN timers :
              (u.kind = "reveal" /\ u.live = t.live /\ u.pr = t.pr) => u.n >= t.n
        /\ LET plans == actionPlans(apiDataAction(t.pr))
               ts1   == RemoveTimer(timers, t)
           IN  IF t.n = Len(plans) - 1
               THEN TimerStep(anim,
                              AddTimer(ts1, Timer(t.owner, "toComplete", t.live, 0,
                                                  t.pr, None)),
                              "reveal")
               ELSE TimerStep(anim, ts1, "reveal")

\* ActionPlanner: the timeout of plan number n (delay n * 1200 ms); timeouts of
\* one forEach fire in the order of their delays.
FireReveal ==
    \E t \in DOMAIN timers :
        /\ t.kind = "reveal"
        /\ \A u \in DOMAIN timers :
              (u.kind = "reveal" /\ u.live = t.live /\ u.pr = t.pr) => u.n >= t.n
        /\ LET plans == actionPlans(apiDataAction(t.pr))
               ts1   == RemoveTimer(timers, t)
               a2    == IF t.live
                        THEN [anim EXCEPT !.visiblePlans = Append(@, plans[t.n + 1])]
                        ELSE anim
           IN  IF t.n = Len(plans) - 1
               THEN TimerStep(a2,
                              AddTimer(ts1, Timer(t.owner, "toComplete", t.live, 0,
                                                  t.pr, None)),
                              "reveal")
               ELSE TimerStep(a2, ts1, "reveal")

\* The settle delay's first timeout without the nested setTimeout.
FireToComplete_noSignal ==
    \E t \in DOMAIN timers :
        /\ t.kind = "toComplete"
        /\ TimerStep(IF t.live THEN [anim EXCEPT !.phase = "complete"] ELSE anim,
                     RemoveTimer(timers, t), "toComplete")

\* The settle delay's first timeout: setResult, setPhase('complete'), then
\* setTimeout(() => onComplete(result), 1000).
FireToComplete ==
    \E t \in DOMAIN timers :
        /\ t.kind = "toComplete"
        /\ LET ts1 == AddTimer(RemoveTimer(timers, t),
                               Timer(t.owner, "signal", t.live, 0, t.pr, t.obs))
               a1  == IF t.owner = STAGE_ACTION
                      THEN [anim EXCEPT !.phase = "complete"]
                      ELSE [anim EXCEPT !.phase = "complete",
                                        !.result = Some(AnimatorResult(t.owner, t.pr, t.obs))]
           IN  IF ~t.live THEN TimerStep(anim, ts1, "toComplete")
               ELSE IF anim.phase # "complete"
               THEN LET e == PhaseEffect(a1, ts1, home)
                    IN  TimerStep(e.anim, e.timers, "toComplete")
               ELSE TimerStep(a1, ts1, "toComplete")

\* The ready flag Home keeps for stage s.
ReadyFlag(h, s) ==
    CASE s = STAGE_RISK  -> h.riskReady
      [] s = STAGE_SCORE -> h.scoreReady
      [] OTHER           -> h.actionReady

\* The handle*Complete closure the animator was given, called with its result.
onComplete(h, t) ==
    LET data == AnimatorResult(t.owner, t.pr, t.obs) IN
    CASE t.owner = STAGE_RISK  -> handleRiskComplete(h, t.pr, t.obs, data)
      [] t.owner = STAGE_SCORE -> handleScoreComplete(h, t.pr, data)
      [] OTHER                 -> handleActionComplete(h, t.pr, data)

\* setTimeout(() => onComplete(result), 1000): stageResultReady reaches Home.
FireSignal ==
    \E t \in DOMAIN timers :
        /\ t.kind = "signal"
        /\ home' = onComplete(home, t)
        /\ timers' = RemoveTimer(timers, t)
        /\ lastOp' = [ op |-> "stageResultReady", arg |-> t.owner,
                       direct |-> FALSE, live |-> t.live,
                       again |-> ReadyFlag(home, t.owner),
                       passed |-> AnimatorResult(t.owner, t.pr, t.obs) ]
        /\ activation' = IF t.live
                         THEN [activation EXCEPT !.signals = @ + 1]
                         ELSE activation
        /\ delivered' = delivered \cup {t.owner}
        /\ UNCHANGED <<calls, anim, crashed, directCalls, snapshot, reviewed, probe>>

TimerFires ==
    \/ FireInterval
    \/ FireToPhase2
    \/ FireType
    \/ FireLikStart
    \/ FireLik
    \/ FireReveal
    \/ FireToComplete
    \/ FireSignal

(***************************************************************************)
(* The application as the user drives it.                                  *)
(***************************************************************************)
Next ==
    \/ Submit
    \/ BackendSettles
    \/ ContinueToScore
    \/ ContinueToAction
    \/ ContinueToSummary
    \/ BackToSummary
    \/ Reset
    \/ ViewAgent
    \/ TimerFires

Spec == Init /\ [][Next]_vars

\* The browser runs every pending timer callback.
FairSpec == Spec /\ WF_vars(TimerFires)

(***************************************************************************)
(* The same application when a handler is also called without its control  *)
(* being on screen (a stale control, a second caller): at most MaxDirect    *)
(* such calls in a run.                                                      *)
(***************************************************************************)
MayCallDirectly == ~crashed /\ directCalls < MaxDirect

\* onSubmit is handed to ObservationForm alone, which is mounted in FORM only.
DirectSubmit ==
    \E formData \in FormInputs :
        /\ MayCallDirectly
        /\ home.stage = STAGE_FORM
        /\ ~Rendered_Submit(formData)
        /\ DoSubmit(formData, TRUE)

DirectContinueToScore ==
    MayCallDirectly /\ ~Rendered_ContinueToScore /\ DoContinueToScore(TRUE)

DirectContinueToAction ==
    MayCallDirectly /\ ~Rendered_ContinueToAction /\ DoContinueToAction(TRUE)

DirectContinueToSummary ==
    MayCallDirectly /\ ~Rendered_ContinueToSummary /\ DoContinueToSummary(TRUE)

DirectBackToSummary ==
    MayCallDirectly /\ ~Rendered_BackToSummary /\ DoBackToSummary(TRUE)

DirectReset == MayCallDirectly /\ ~Rendered_Summary /\ DoReset(TRUE)

\* "timeline" stands for every agentType handleViewAgent has no case for.
DirectViewAgent ==
    \E agentType \in AgentTypes \cup {"timeline"} :
        /\ MayCallDirectly
        /\ ~Rendered_Summary \/ agentType \notin AgentTypes
        /\ DoViewAgent(agentType, TRUE)

NextDirect ==
    \/ Next
    \/ DirectSubmit
    \/ DirectContinueToScore
    \/ DirectContinueToAction
    \/ DirectContinueToSummary
    \/ DirectBackToSummary
    \/ DirectReset
    \/ DirectViewAgent

SpecDirect == Init /\ [][NextDirect]_vars

(***************************************************************************)
(* The transformation layer by itself: one backend item is drawn, and the  *)
(* step applies to it what the orchestrator applies when the stage's       *)
(* signal arrives.                                                         *)
(***************************************************************************)
HazardDescriptions ==
    { <<"U", "n", "g", "u", "a", "r", "d", "e", "d", " ", "s", "c", "a", "f", "f", "o", "l", "d", " ", "e", "d", "g", "e">>,
      <<"F", "a", "l", "l">>,
      <<"W", "e", "t", " ", "f", "l", "o", "o", "r">>,
      <<"U", "n", "s", "a", "f", "e", " ", "d", "a", "m", "a", "g", "e", "d", " ", "b", "r", "o", "k", "e", "n", " ", "g", "u", "a", "r", "d", " ", "f", "a", "l", "l", "i", "n", "g">> }

ObservationDescriptions ==
    { <<"w", "o", "r", "k", "e", "r", " ", "o", "n", " ", "u", "n", "g", "u", "a", "r", "d", "e", "d", " ", "s", "c", "a", "f", "f", "o", "l", "d">>,
      <<"s", "l", "i", "p">>,
      <<"W", "e", "t", " ", "f", "l", "o", "o", "r">> }

KnownTaxonomyRefs ==
    { "HAZ-FALL-001", "HAZ-FALL-002", "HAZ-ELEC-001", "HAZ-ELEC-002", "HAZ-CHEM-001",
      "HAZ-CHEM-002", "HAZ-MECH-001", "HAZ-MECH-002", "HAZ-ERGO-001", "HAZ-ERGO-002",
      "HAZ-FIRE-001", "HAZ-FIRE-002", "HAZ-GEN-001", "HAZ-GEN-002" }

\* Known codes, a code the table does not have, no code, and a code that is
\* the name of an inherited member.
TaxonomyRefs == KnownTaxonomyRefs \cup {"HAZ-NEW-001", Absent, "constructor"}

KnownControlTypes == {"ELIMINATION", "SUBSTITUTION", "ENGINEERING", "ADMINISTRATIVE", "PPE"}

ControlTypes == KnownControlTypes \cup {"TRAINING", Absent, "constructor"}

KnownPriorities == {"CRITICAL", "HIGH", "MEDIUM", "LOW"}

Priorities == KnownPriorities \cup {"URGENT", Absent, "constructor"}

\* hazard is None when the response's hazards list is empty.
RiskInputs ==
    { [ hazard |-> Some([ description |-> d, taxonomy_ref |-> t, confidence |-> 920 ]),
        observationDesc |-> o ]
      : d \in HazardDescriptions, t \in TaxonomyRefs, o \in ObservationDescriptions }
    \cup { [ hazard |-> None, observationDesc |-> o ] : o \in ObservationDescriptions }

\* handleRiskComplete as the Risk animator's signal calls it, for a response
\* with this one hazard (or none) and an observation with this description:
\* the Risk result Home records.
RecordedRisk(input) ==
    LET obs == Some(BuildObservation(
                   [ site |-> "Building A - 3rd Floor", potential |-> "HAZARD",
                     type |-> "UNSAFE_CONDITION", description |-> input.observationDesc ]))
        pr  == Some([ hazards |-> Some(IF input.hazard = None THEN <<>>
                                       ELSE <<Val(input.hazard)>>),
                      scored_hazards |-> Some(<<>>), action_plans |-> Some(<<>>) ])
        h   == handleRiskComplete(HomeInit, pr, obs, AnimatorResult(STAGE_RISK, pr, obs))
    IN  Val(h.riskData)

\* The priority of a task of this control type, as transformActionPlanToActions
\* gives it and as ActionPlanner's own plans give it.
TaskPriorities(controlType) ==
    LET plan == [ PlanA EXCEPT !.tasks = << [ PlanA.tasks[1] EXCEPT
                                               !.control_type = controlType ] >> ]
    IN  [ transform |-> transformActionPlanToActions(plan)[1].priority,
          animator  |-> actionPlans(Some(<<plan>>))[1].tasks[1].priority ]

\* The category of a scored hazard of this priority, as
\* transformScoredHazardToScoreData gives it and as ScoreManager gives it.
ScoreCategories(priority) ==
    LET scoredHazard == [ ScoredHazard1 EXCEPT !.priority = priority ]
    IN  [ transform |-> transformScoredHazardToScoreData(scoredHazard).category,
          animator  |-> scoreResult(Some(scoredHazard)).category ]

Drawn(kind, input) ==
    [ kind |-> kind, input |-> input, applied |-> FALSE, output |-> <<>> ]

InitTransform ==
    /\ home = HomeInit
    /\ calls = EmptyBag
    /\ anim = NoAnim
    /\ timers = EmptyBag
    /\ crashed = FALSE
    /\ directCalls = 0
    /\ lastOp = Op("init", "", FALSE)
    /\ activation = NoActivation
    /\ snapshot = None
    /\ reviewed = FALSE
    /\ delivered = {}
    /\ \/ \E input \in RiskInputs : probe = Drawn("risk", input)
       \/ \E controlType \in ControlTypes : probe = Drawn("priority", controlType)
       \/ \E priority \in Priorities : probe = Drawn("category", priority)

Applied(output) ==
    /\ ~probe.applied
    /\ probe' = [ probe EXCEPT !.applied = TRUE, !.output = output ]
    /\ UNCHANGED <<home, calls, anim, timers, crashed, directCalls, lastOp, activation,
                   snapshot, reviewed, delivered>>

ApplyRecordedRisk == probe.kind = "risk" /\ Applied(RecordedRisk(probe.input))

ApplyTaskPriorities == probe.kind = "priority" /\ Applied(TaskPriorities(probe.input))

ApplyScoreCategories == probe.kind = "category" /\ Applied(ScoreCategories(probe.input))

NextTransform ==
    \/ ApplyRecordedRisk
    \/ ApplyTaskPriorities
    \/ ApplyScoreCategories

SpecTransform == InitTransform /\ [][NextTransform]_vars

(***************************************************************************)
(* Properties.                                                             *)
(***************************************************************************)
\* The timers of the mounted animator.
LiveTimers == { t \in DOMAIN timers : t.live }

\* C1: a submit from FORM with no call outstanding, answered with success,
\* leaves stage RISK, the submitting flag false, no error and the whole
\* response body stored; until the answer the stage stays FORM.
C1_SubmitSuccess ==
    /\ (calls # EmptyBag => (home.stage = STAGE_FORM /\ home.isSubmitting))
    /\ (lastOp.op = "resolved" =>
          /\ home.stage = STAGE_RISK
          /\ ~home.isSubmitting
          /\ home.error = None
          /\ home.pipelineResult = lastOp.arg.result
          /\ calls = EmptyBag)

C1_Witness ==
    /\ lastOp.op = "resolved"
    /\ home.stage = STAGE_RISK
    /\ home.pipelineResult # None
    /\ Val(home.pipelineResult).hazards = Some(<<Hazard1>>)

\* A failure as C2 means it: fetch rejected, or the status is not 2xx.
IsFailure(response) == response.kind = "network" \/ ~ResponseOk(response)

\* The failure's body carries a detail message.
HasDetailMessage(response) ==
    /\ response.kind = "http"
    /\ response.json
    /\ response.detail # None
    /\ Val(response.detail).isText
    /\ Val(response.detail).text # ""

\* After a failed call: still FORM, flag false, nothing stored, an error shown.
StaysOnForm ==
    /\ home.stage = STAGE_FORM
    /\ ~home.isSubmitting
    /\ home.pipelineResult = None
    /\ home.error # None

FailureText(response) ==
    CASE response.kind = "network" -> response.message
      [] ~response.json -> <<"Unknown error">>
      [] HasDetailMessage(response) -> <<Val(response.detail).text>>
      [] response.detail # None /\ ~Val(response.detail).isText -> <<"[object Object]">>
      [] OTHER -> <<"API request failed with status ", StatusText(response.status)>>

C3_OneOutstandingCall == BagCardinality(calls) <= 1

C5_NoStaleSignal == ~(lastOp.op = "stageResultReady" /\ ~lastOp.live)

\* The fixed order of the stages after FORM.
NextStage(stage) ==
    CASE stage = STAGE_RISK   -> STAGE_SCORE
      [] stage = STAGE_SCORE  -> STAGE_ACTION
      [] stage = STAGE_ACTION -> STAGE_SUMMARY
      [] OTHER                -> "none"

\* C6: every continueToNext the user can make moves the stage one step along
\* RISK, SCORE, ACTION, SUMMARY (from RISK always to SCORE), also in a run
\* that follows review round trips.
C6_FixedOrder ==
    [][ lastOp'.op = "continueToNext" =>
            /\ home.stage \in AgentStages
            /\ lastOp'.arg = home.stage
            /\ home'.stage = NextStage(home.stage) ]_vars

C6_Witness ==
    /\ reviewed
    /\ lastOp.op = "continueToNext"
    /\ lastOp.arg = "risk"
    /\ home.stage = STAGE_SCORE

\* C7: the completed-stage history never holds a stage twice and never more
\* than three entries.
C7_NoDuplicateSteps ==
    /\ Len(home.completedSteps) <= 3
    /\ \A i, j \in 1..Len(home.completedSteps) :
          i # j => home.completedSteps[i] # home.completedSteps[j]

\* What an invalid navigation call must leave alone.
Navigation(h) ==
    [ stage |-> h.stage, completedSteps |-> h.completedSteps,
      riskReady |-> h.riskReady, scoreReady |-> h.scoreReady,
      actionReady |-> h.actionReady, viewingFromSummary |-> h.viewingFromSummary,
      riskData |-> h.riskData, scoreData |-> h.scoreData, actions |-> h.actions ]

\* The stage named by agentType is the current one and is ready.
ReadyFor(h, agentType) ==
    \/ agentType = "risk"   /\ h.stage = STAGE_RISK   /\ h.riskReady
    \/ agentType = "score"  /\ h.stage = STAGE_SCORE  /\ h.scoreReady
    \/ agentType = "action" /\ h.stage = STAGE_ACTION /\ h.actionReady

\* C8: a continueToNext for a stage that is not current or not ready changes
\* neither stage, history, ready flags, review mode nor results.
C8_ContinueRejected ==
    [][ (lastOp'.op = "continueToNext" /\ ~ReadyFor(home, lastOp'.arg))
            => Navigation(home') = Navigation(home) ]_vars

\* agentType is in the completed-stage history.
Completed(h, agentType) ==
    \E i \in 1..Len(h.completedSteps) : h.completedSteps[i] = agentType

\* C9: a viewStage made outside SUMMARY, or for a stage that is not completed
\* or not a stage at all, changes neither stage, review mode, ready flags,
\* history nor results.
C9_ViewRejected ==
    [][ (lastOp'.op = "viewStage"
           /\ ~(home.stage = STAGE_SUMMARY /\ Completed(home, lastOp'.arg)))
            => Navigation(home') = Navigation(home) ]_vars

\* C10: from SUMMARY, viewStage(s) for a completed s brings up the review of
\* s with history and results as before, and the returnToSummary that follows
\* ends in SUMMARY with review mode off, history and results still as before.
C10_ReviewRoundTrip ==
    /\ (lastOp.op = "viewStage" /\ ~lastOp.direct) =>
          /\ ~crashed
          /\ Rendered_BackToSummary
          /\ Recorded(home) = Val(snapshot)
    /\ (lastOp.op = "returnToSummary" /\ ~lastOp.direct) =>
          /\ home.stage = STAGE_SUMMARY
          /\ ~home.viewingFromSummary
          /\ Recorded(home) = Val(snapshot)

\* C11: right after reset(), from whatever state it was called in, the stage
\* is FORM, observation, response and the three results are absent, the
\* history is empty, there is no error, the three ready flags and review mode
\* are false.
C11_ResetClears ==
    lastOp.op = "reset" =>
        /\ home.stage = STAGE_FORM
        /\ home.observation = None
        /\ home.pipelineResult = None
        /\ home.riskData = None /\ home.scoreData = None /\ home.actions = None
        /\ home.completedSteps = <<>>
        /\ home.error = None
        /\ ~home.riskReady /\ ~home.scoreReady /\ ~home.actionReady
        /\ ~home.viewingFromSummary

\* A reset made in the middle of a run, away from SUMMARY.
C11_Witness ==
    /\ lastOp.op = "reset"
    /\ lastOp.direct
    /\ timers # EmptyBag
    /\ home.stage = STAGE_FORM
    /\ home.completedSteps = <<>>

\* The signal that was just delivered came from the mounted animator of
\* stage s while a response is stored.
Signalled(s) ==
    /\ lastOp.op = "stageResultReady"
    /\ lastOp.live
    /\ lastOp.arg = s
    /\ home.pipelineResult # None

\* C12: after stageResultReady, the recorded result of the stage is the
\* transform of the stored response's data for the stage when the response
\* has such data, and the value the animator passed when its list is empty.
C12_BackendPrecedence ==
    /\ (Signalled(STAGE_RISK) /\ Val(home.pipelineResult).hazards # None) =>
          LET hazards == Val(Val(home.pipelineResult).hazards) IN
          home.riskData =
             IF Len(hazards) > 0
             THEN Some(transformHazardToRiskData(hazards[1], Val(home.observation)))
             ELSE Some(AnimatorResult(STAGE_RISK, home.pipelineResult, home.observation))
    /\ (Signalled(STAGE_SCORE) /\ Val(home.pipelineResult).scored_hazards # None) =>
          LET scored == Val(Val(home.pipelineResult).scored_hazards) IN
          home.scoreData =
             IF Len(scored) > 0
             THEN Some(transformScoredHazardToScoreData(scored[1]))
             ELSE Some(AnimatorResult(STAGE_SCORE, home.pipelineResult, None))
    /\ (Signalled(STAGE_ACTION) /\ Val(home.pipelineResult).action_plans # None) =>
          LET plans == Val(Val(home.pipelineResult).action_plans) IN
          home.actions =
             IF Len(plans) > 0
             THEN Some(transformActionPlanToActions(plans[1]))
             ELSE Some(AnimatorResult(STAGE_ACTION, home.pipelineResult, None))

\* The transform's output was recorded where the animator passed another value.
C12_Witness ==
    /\ Signalled(STAGE_SCORE)
    /\ Val(home.pipelineResult).scored_hazards = Some(<<ScoredHazard1>>)
    /\ home.scoreData = Some(transformScoredHazardToScoreData(ScoredHazard1))
    /\ home.scoreData # Some(scoreResult(Some(ScoredHazard1)))

\* C13: for a scored hazard with severity and likelihood and no rpn, the
\* recorded Score result has riskScore = severity * likelihood.
C13_RiskScoreIsProduct ==
    (/\ Signalled(STAGE_SCORE)
     /\ Val(home.pipelineResult).scored_hazards # None
     /\ Len(Val(Val(home.pipelineResult).scored_hazards)) > 0
     /\ Val(Val(home.pipelineResult).scored_hazards)[1].rpn = None) =>
        LET s == Val(Val(home.pipelineResult).scored_hazards)[1] IN
        /\ home.scoreData # None
        /\ Val(home.scoreData).riskScore = Some(s.severity * s.likelihood)

RECURSIVE AllTitles(_)
\* The task titles of all plans, in plan order and then task order.
AllTitles(plans) ==
    IF plans = <<>> THEN <<>>
    ELSE [ i \in 1..Len(Head(plans).tasks) |-> Head(plans).tasks[i].title ]
         \o AllTitles(Tail(plans))

\* C14: when the response holds action plans, the recorded Action result
\* lists the tasks of all of them, in plan order and then task order.
C14_AllPlansRecorded ==
    (/\ Signalled(STAGE_ACTION)
     /\ Val(home.pipelineResult).action_plans # None
     /\ Len(Val(Val(home.pipelineResult).action_plans)) > 0) =>
        /\ home.actions # None
        /\ [ i \in 1..Len(Val(home.actions)) |-> Val(home.actions)[i].title ]
              = AllTitles(Val(Val(home.pipelineResult).action_plans))

\* C15: when the response leaves a stage's field out, stageResultReady for
\* that stage records the stage's fixed fallback result and sets it ready.
C15_AbsentFieldFallsBack ==
    /\ (Signalled(STAGE_RISK) /\ Val(home.pipelineResult).hazards = None) =>
          /\ home.riskReady
          /\ home.riskData = Some(analysisResult(None, home.observation))
    /\ (Signalled(STAGE_SCORE) /\ Val(home.pipelineResult).scored_hazards = None) =>
          /\ home.scoreReady
          /\ home.scoreData = Some(scoreResult(None))
    /\ (Signalled(STAGE_ACTION) /\ Val(home.pipelineResult).action_plans = None) =>
          /\ home.actionReady
          /\ home.actions = Some(defaultActionItems)

\* The stored response has scored_hazards = [].
NoScoredHazards ==
    /\ home.pipelineResult # None
    /\ Val(home.pipelineResult).scored_hazards = Some(<<>>)

\* C16: with scored_hazards = [] the Score result recorded at the signal, and
\* kept from then on, is severity 4, likelihood 3, riskScore 12, category
\* High.
C16_ScoreDefault ==
    /\ (Signalled(STAGE_SCORE) /\ NoScoredHazards) => home.scoreData # None
    /\ (NoScoredHazards /\ home.scoreData # None) =>
          /\ Val(home.scoreData).severity = 4
          /\ Val(home.scoreData).likelihood = 3
          /\ Val(home.scoreData).riskScore = Some(12)
          /\ Val(home.scoreData).category = "High"

C16_Witness ==
    /\ Signalled(STAGE_SCORE)
    /\ NoScoredHazards
    /\ home.scoreReady
    /\ home.scoreData # None
    /\ Val(home.scoreData).riskScore = Some(12)

\* C17: a run that got a successful response never comes to rest in RISK,
\* SCORE or ACTION with that stage not ready: once the mounted animator has no
\* timer left, the stage is ready and Continue leads on towards SUMMARY.
C17_NoStuckStage ==
    (/\ ~crashed
     /\ home.stage \in AgentStages
     /\ home.pipelineResult # None
     /\ LiveTimers = {}) => ReadyFor(home, home.stage)

\* C18: a review opened from SUMMARY shows an animator that is in phase
\* 'complete' with its result from the start, with no timer, and the stage is
\* ready at once.
C18_ImmediateComplete ==
    (lastOp.op = "viewStage" /\ ~lastOp.direct) =>
        /\ ~crashed
        /\ anim.phase = "complete"
        /\ (anim.mounted \in {STAGE_RISK, STAGE_SCORE} => anim.result # None)
        /\ LiveTimers = {}
        /\ ReadyFor(home, home.stage)

\* The task titles of a task list.
Titles(tasks) == [ i \in 1..Len(tasks) |-> tasks[i].title ]

\* C19: a review opened from SUMMARY brings up the animator of the completed
\* stage, and what it shows is the result recorded for that stage when it
\* first completed.
C19_ReviewShowsRecorded ==
    (lastOp.op = "viewStage" /\ ~lastOp.direct) =>
        /\ ~crashed
        /\ (anim.mounted = STAGE_RISK => anim.result = home.riskData)
        /\ (anim.mounted = STAGE_SCORE => anim.result = home.scoreData)
        /\ (anim.mounted = STAGE_ACTION =>
               Titles(flatMapTasks(anim.visiblePlans)) = Titles(Val(home.actions)))

\* C20: a scripted animator starts in its first phase, goes from there to its
\* second phase and from that to 'complete', changes phase in no other way,
\* and its stageResultReady comes when the phase is 'complete'.
C20_PhaseOrder ==
    [][ /\ (anim'.mounted # "none" /\ anim'.mounted # anim.mounted
              /\ ~home'.viewingFromSummary)
            => anim'.phase = FirstPhase(anim'.mounted)
        /\ (anim'.mounted = anim.mounted /\ anim.mounted # "none"
              /\ activation.mode = "scripted" /\ anim'.phase # anim.phase)
            => \/ /\ anim.phase = FirstPhase(anim.mounted)
                  /\ anim'.phase = SecondPhase(anim.mounted)
               \/ /\ anim.phase = SecondPhase(anim.mounted)
                  /\ anim'.phase = "complete"
        /\ (lastOp'.op = "stageResultReady" /\ lastOp'.live)
            => /\ anim.phase = "complete"
               /\ anim.mounted = lastOp'.arg ]_vars

C20_Witness ==
    /\ lastOp.op = "stageResultReady"
    /\ lastOp.live
    /\ activation.mode = "scripted"
    /\ anim.mounted = STAGE_ACTION
    /\ anim.phase = "complete"
    /\ home.actionReady

\* C21: the delivery of stageResultReady for stage s changes nothing of Home
\* but the result and the ready flag of s: the stage, the completed-stage
\* history, review mode, the other stages' results and ready flags, the
\* observation, the response and the error stay as they were, also when the
\* ready flag of s was already set.
C21_SignalFrame ==
    [][ lastOp'.op = "stageResultReady" =>
          LET s == lastOp'.arg IN
          /\ home'.stage = home.stage
          /\ home'.completedSteps = home.completedSteps
          /\ home'.viewingFromSummary = home.viewingFromSummary
          /\ home'.observation = home.observation
          /\ home'.pipelineResult = home.pipelineResult
          /\ home'.error = home.error
          /\ home'.isSubmitting = home.isSubmitting
          /\ s # STAGE_RISK =>
                home'.riskData = home.riskData /\ home'.riskReady = home.riskReady
          /\ s # STAGE_SCORE =>
                home'.scoreData = home.scoreData /\ home'.scoreReady = home.scoreReady
          /\ s # STAGE_ACTION =>
                home'.actions = home.actions /\ home'.actionReady = home.actionReady ]_vars

\* A signal was delivered for a stage whose ready flag was already set, and
\* the stage's result is recorded.
C21_Witness ==
    /\ lastOp.op = "stageResultReady"
    /\ lastOp.again
    /\ ReadyFlag(home, lastOp.arg)
    /\ home.stage = lastOp.arg
    /\ home.completedSteps = <<>>
    /\ home.riskData # None

\* C22: within one run the completed-stage history only grows: a step that
\* is not a reset keeps every entry of the history, in its place (submit, the
\* backend's answer, stageResultReady, viewStage, returnToSummary and the
\* timers remove nothing).
C22_HistoryGrows ==
    [][ lastOp'.op # "reset" =>
          /\ Len(home'.completedSteps) >= Len(home.completedSteps)
          /\ \A i \in 1..Len(home.completedSteps) :
                home'.completedSteps[i] = home.completedSteps[i] ]_vars

\* Back in SUMMARY after a review visit, with the three stages still in the
\* history.
C22_Witness ==
    /\ lastOp.op = "returnToSummary"
    /\ home.stage = STAGE_SUMMARY
    /\ Completed(home, "risk") /\ Completed(home, "score") /\ Completed(home, "action")

\* C23: while the stage is RISK, SCORE, ACTION or SUMMARY the observation and
\* the backend's response are stored, and a stage's result is recorded only
\* when stageResultReady of that stage reached Home since the last reset.
C23_DataBeforeStage ==
    /\ home.stage # STAGE_FORM =>
          home.observation # None /\ home.pipelineResult # None
    /\ home.riskData # None => STAGE_RISK \in delivered
    /\ home.scoreData # None => STAGE_SCORE \in delivered
    /\ home.actions # None => STAGE_ACTION \in delivered

\* C24: right after a viewStage(s) taken from SUMMARY, review mode is on, the
\* stage is s and s is ready, and the Back to Summary control can be used at
\* once, with no timer or signal in between.
C24_ReviewLeavable ==
    (lastOp.op = "viewStage" /\ ~lastOp.direct) =>
        /\ home.viewingFromSummary
        /\ home.stage = lastOp.arg
        /\ ReadyFlag(home, lastOp.arg)
        /\ LiveTimers = {}
        /\ ENABLED BackToSummary

\* C25: a failed submit leaves the form usable: once the failure is recorded
\* the stage is FORM with no call outstanding and the submit control enabled
\* for every valid form; a submit made while an error is shown clears the
\* error and issues one call; an answer of success then gives stage RISK with
\* no error; and only a submit ever issues a call (nothing retries by itself).
C25_RetryAfterFailure ==
    [][ /\ lastOp'.op = "rejected" =>
              /\ home'.stage = STAGE_FORM
              /\ ~home'.isSubmitting
              /\ home'.error # None
              /\ calls' = EmptyBag
              /\ \A formData \in FormInputs :
                    isValid(formData) => Rendered_Submit(formData)'
        /\ (lastOp'.op = "submit" /\ home.error # None) =>
              /\ home'.stage = STAGE_FORM
              /\ home'.error = None
              /\ home'.isSubmitting
              /\ BagCardinality(calls') = 1
        /\ lastOp'.op = "resolved" =>
              /\ home'.stage = STAGE_RISK
              /\ home'.error = None
              /\ home'.pipelineResult = lastOp'.arg.result
        /\ BagCardinality(calls') > BagCardinality(calls) => lastOp'.op = "submit"
      ]_vars

\* A second submit, made while the error of a failed one was shown, is
\* awaiting its answer.
C25_Witness ==
    /\ lastOp.op = "submit"
    /\ lastOp.arg # None
    /\ home.error = None
    /\ home.isSubmitting
    /\ BagCardinality(calls) = 1

\* The step applied the drawn function.
Probed(kind) == probe.kind = kind /\ probe.applied

\* The hazard and the observation of the scaffold scenario.
ScaffoldScenario ==
    [ hazard |-> Some([ description |-> <<"U", "n", "g", "u", "a", "r", "d", "e", "d", " ", "s", "c", "a", "f", "f", "o", "l", "d", " ", "e", "d", "g", "e">>,
                        taxonomy_ref |-> "HAZ-FALL-001", confidence |-> 920 ]),
      observationDesc |-> <<"w", "o", "r", "k", "e", "r", " ", "o", "n", " ", "u", "n", "g", "u", "a", "r", "d", "e", "d", " ", "s", "c", "a", "f", "f", "o", "l", "d">> ]

\* C26: for the observation 'worker on unguarded scaffold' and the hazard
\* 'Unguarded scaffold edge' (HAZ-FALL-001, confidence 0.92) the recorded Risk
\* result has that hazard text, category 'Fall Protection / Scaffolding',
\* confidence 92 and a keyword list that holds 'scaffolding'.
C26_ScaffoldScenario ==
    (Probed("risk") /\ probe.input = ScaffoldScenario) =>
        /\ probe.output.hazard = Val(ScaffoldScenario.hazard).description
        /\ probe.output.category = "Fall Protection / Scaffolding"
        /\ probe.output.confidence = 92
        /\ \E i \in 1..Len(probe.output.keywords) :
              probe.output.keywords[i] = <<"s", "c", "a", "f", "f", "o", "l", "d", "i", "n", "g">>

\* C27: the keyword list of the recorded Risk result has between 3 and 5
\* entries, whatever the hazard's and the observation's descriptions are.
C27_KeywordCount ==
    Probed("risk") =>
        /\ Len(probe.output.keywords) >= 3
        /\ Len(probe.output.keywords) <= 5

\* C28: a task's priority is Immediate for ELIMINATION and SUBSTITUTION,
\* Before Next Shift for ENGINEERING and PPE, Daily for ADMINISTRATIVE and for
\* every other control type, also an absent one; the transformation layer and
\* the Action animator give the same priority.
C28_PriorityTotal ==
    Probed("priority") =>
        /\ probe.output.transform =
              CASE probe.input \in {"ELIMINATION", "SUBSTITUTION"} -> "Immediate"
                [] probe.input \in {"ENGINEERING", "PPE"}       -> "Before Next Shift"
                [] OTHER                                        -> "Daily"
        /\ probe.output.animator = probe.output.transform

\* C29: each of the 14 known taxonomy codes gives its own label and every
\* other code, also an absent one, gives 'General Safety'; a scored hazard's
\* priority that is absent or not one of the four known gives category
\* Medium.
C29_CategoryTotal ==
    /\ (Probed("risk") /\ probe.input.hazard # None) =>
          LET taxonomyRef == Val(probe.input.hazard).taxonomy_ref IN
          /\ taxonomyRef \notin KnownTaxonomyRefs =>
                probe.output.category = "General Safety"
          /\ taxonomyRef \in KnownTaxonomyRefs =>
                probe.output.category = mapTaxonomyToCategory(taxonomyRef)
    /\ (Probed("category") /\ probe.input \notin KnownPriorities) =>
          probe.output.transform = "Medium"

\* C30: whenever review mode is on, the stage is RISK, SCORE or ACTION and is
\* in the completed-stage history (so review mode is off in FORM and in
\* SUMMARY); and review mode goes from off to on only in a viewStage step
\* taken in SUMMARY.
C30_ReviewModeScope ==
    /\ [](home.viewingFromSummary =>
            /\ home.stage \in AgentStages
            /\ Completed(home, home.stage))
    /\ [][ (~home.viewingFromSummary /\ home'.viewingFromSummary) =>
              /\ lastOp'.op = "viewStage"
              /\ home.stage = STAGE_SUMMARY ]_vars

\* The review of SCORE is on screen.
C30_Witness ==
    /\ lastOp.op = "viewStage"
    /\ home.viewingFromSummary
    /\ home.stage = STAGE_SCORE
    /\ Completed(home, "score")
    /\ anim.mounted = STAGE_SCORE

\* C31: while review mode is on no Continue control can be used, and the
\* only step of the user is returnToSummary: a step taken in review mode
\* leaves the completed-stage history as it is and either keeps the stage or
\* is the returnToSummary that goes to SUMMARY.
C31_ReviewOnlyReturns ==
    /\ [](home.viewingFromSummary =>
            /\ ~ENABLED ContinueToScore
            /\ ~ENABLED ContinueToAction
            /\ ~ENABLED ContinueToSummary)
    /\ [][ home.viewingFromSummary =>
              /\ lastOp'.op \notin {"continueToNext", "submit", "viewStage", "reset"}
              /\ home'.completedSteps = home.completedSteps
              /\ \/ home'.stage = home.stage
                 \/ lastOp'.op = "returnToSummary" /\ home'.stage = STAGE_SUMMARY ]_vars

\* The review of ACTION is on screen with its ready flag set: Back to Summary
\* can be used.
C31_Witness ==
    /\ lastOp.op = "viewStage"
    /\ home.viewingFromSummary
    /\ home.stage = STAGE_ACTION
    /\ home.actionReady
    /\ ENABLED BackToSummary

\* The agent stages that come before a stage in the workflow's order.
StagesBefore(stage) ==
    CASE stage = STAGE_SCORE   -> <<"risk">>
      [] stage = STAGE_ACTION  -> <<"risk", "score">>
      [] stage = STAGE_SUMMARY -> <<"risk", "score", "action">>
      [] OTHER                 -> <<>>

C33_DisplayedIsRecorded ==
    /\ (Signalled(STAGE_RISK) /\ anim.mounted = STAGE_RISK /\ home.riskData # None) =>
          anim.result = home.riskData
    /\ (Signalled(STAGE_SCORE) /\ anim.mounted = STAGE_SCORE /\ home.scoreData # None) =>
          /\ Val(anim.result).severity = Val(home.scoreData).severity
          /\ Val(anim.result).likelihood = Val(home.scoreData).likelihood
          /\ Val(anim.result).riskScore = Val(home.scoreData).riskScore
          /\ Val(anim.result).category = Val(home.scoreData).category
    /\ (Signalled(STAGE_ACTION) /\ anim.mounted = STAGE_ACTION /\ home.actions # None) =>
          Titles(flatMapTasks(anim.visiblePlans)) = Titles(Val(home.actions))

\* C34: the submitting flag is true exactly while an analyze call awaits its
\* answer, there is never more than one such call, and the flag is false in
\* every stage other than FORM.
C34_SubmittingWhileOutstanding ==
    /\ home.isSubmitting <=> calls # EmptyBag
    /\ BagCardinality(calls) <= 1
    /\ home.stage # STAGE_FORM => ~home.isSubmitting

\* A call has just failed: the flag is down again and nothing is outstanding.
C34_Witness ==
    /\ lastOp.op = "rejected"
    /\ ~home.isSubmitting
    /\ calls = EmptyBag
    /\ home.stage = STAGE_FORM

\* C35: an error is recorded only while the stage is FORM, and not while a
\* call awaits its answer: the submit that issued the call cleared it.
C35_ErrorOnlyOnForm ==
    /\ home.error # None => home.stage = STAGE_FORM
    /\ calls # EmptyBag => home.error = None

\* The backend's own message is shown on the form.
C35_Witness ==
    /\ home.stage = STAGE_FORM
    /\ home.error = Some(<<"Observation rejected">>)
    /\ home.observation # None
    /\ home.pipelineResult = None

\* C36: in SUMMARY the three results are recorded and risk, score and action
\* are in the completed-stage history, so that each agent button of the
\* summary opens a completed stage.
C36_SummaryComplete ==
    home.stage = STAGE_SUMMARY =>
        /\ home.riskData # None
        /\ home.scoreData # None
        /\ home.actions # None
        /\ \A agentType \in AgentTypes : Completed(home, agentType)

\* SUMMARY was just reached from ACTION, for a response that holds plans.
C36_Witness ==
    /\ lastOp.op = "continueToNext"
    /\ home.stage = STAGE_SUMMARY
    /\ home.actions # None
    /\ apiDataAction(home.pipelineResult) # None
    /\ Len(Val(apiDataAction(home.pipelineResult))) > 0

\* C37: a ready flag is set only for the current stage.
C37_ReadyOnlyCurrent ==
    \A s \in AgentStages : ReadyFlag(home, s) => home.stage = s

\* C37, as the handlers have it: continueToNext leaves the flag of the stage
\* it leaves false; returnToSummary leaves the three flags as they are; so a
\* flag set for a stage other than the current one is that of a completed
\* stage, after a review visit has been left.
C37_ReadyClearedByContinue ==
    /\ [][ lastOp'.op = "continueToNext" => ~ReadyFlag(home', home.stage) ]_vars
    /\ [][ lastOp'.op = "returnToSummary" =>
              \A s \in AgentStages : ReadyFlag(home', s) = ReadyFlag(home, s) ]_vars
    /\ [](\A s \in AgentStages :
            (ReadyFlag(home, s) /\ home.stage # s) => (reviewed /\ Completed(home, s)))

\* Back in SUMMARY after the review of SCORE, whose flag is still set.
C37_Witness ==
    /\ lastOp.op = "returnToSummary"
    /\ lastOp.arg = STAGE_SCORE
    /\ home.stage = STAGE_SUMMARY
    /\ home.scoreReady

\* C38: nothing of a run reaches the next one.  Right after reset the
\* application is as it was when it started: Home's cells, no call awaiting
\* an answer, no animator, no timer pending.  And when a submit is answered
\* with success, Home's cells, the animator and the timers are those given by
\* the submitted observation and the response alone, in a first run as in a
\* later one.
C38_RunsIndependent ==
    /\ lastOp.op = "reset" =>
          /\ home = HomeInit
          /\ calls = EmptyBag
          /\ anim = NoAnim
          /\ timers = EmptyBag
          /\ ~crashed
    /\ lastOp.op = "resolved" =>
          /\ home = [ HomeInit EXCEPT !.stage = STAGE_RISK,
                                     !.observation = home.observation,
                                     !.pipelineResult = lastOp.arg.result ]
          /\ home.observation # None
          /\ calls = EmptyBag
          /\ anim = AnimInit(STAGE_RISK, FALSE)
          /\ timers = SetToBag({Timer(STAGE_RISK, "interval", TRUE, 0, None, None)})

\* A submit of a later run was answered with success: an earlier run was
\* completed, reviewed and reset.
C38_Witness ==
    /\ lastOp.op = "resolved"
    /\ reviewed
    /\ home.stage = STAGE_RISK
    /\ home.completedSteps = <<>>
    /\ home.riskData = None

\* C39: when the mounted Action animator's signal arrives in scripted mode,
\* the plans it has revealed are the action plans in their order, each once,
\* and the task list it passed is the tasks of all these plans, plan after
\* plan; an Action animator mounted in immediate mode shows the same full
\* list of plans.
C39_AllPlansRevealed ==
    /\ (lastOp.op = "stageResultReady" /\ lastOp.live /\ lastOp.arg = STAGE_ACTION
           /\ anim.mounted = STAGE_ACTION /\ activation.mode = "scripted") =>
          /\ anim.phase = "complete"
          /\ anim.visiblePlans = actionPlans(apiDataAction(home.pipelineResult))
          /\ lastOp.passed = flatMapTasks(anim.visiblePlans)
    /\ (anim.mounted = STAGE_ACTION /\ activation.mode = "immediate") =>
          /\ anim.phase = "complete"
          /\ anim.visiblePlans = actionPlans(apiDataAction(home.pipelineResult))

\* The signal arrived after two plans were revealed.
C39_Witness ==
    /\ lastOp.op = "stageResultReady"
    /\ lastOp.live
    /\ lastOp.arg = STAGE_ACTION
    /\ activation.mode = "scripted"
    /\ Len(anim.visiblePlans) = 2
    /\ Len(lastOp.passed) = 2
====
